---- MODULE Spec2Model ----
(***************************************************************************)
(* HelloGUI: the timer-driven data stream (core/data_stream.py), the       *)
(* bounded dataset (models/dataset_model.py), the configuration validator  *)
(* (models/config_model.py), the application state (core/state.py), the    *)
(* CSV reader and writer (core/io_manager.py) and the handlers of the main *)
(* window (main_window.py).                                                *)
(*                                                                         *)
(* Numbers.  A Python float is a pair <<tag, n>>: <<"fin", n>> is the      *)
(* finite float n/20 (so 1 is 0.05, 10 is 0.5 and 20 is 1.0, which makes   *)
(* the factory defaults 1.0, 0.5, 0.05, 0.05 whole numbers), <<"nan", 0>>  *)
(* is NaN and <<"inf", 1>>, <<"inf", -1>> are the infinities.  The cursor  *)
(* x_current and y_last are finite and kept as the bare integer n.         *)
(*                                                                         *)
(* Qt delivers signals to directly connected slots synchronously and runs  *)
(* every handler to completion on the one GUI thread, so a handler,        *)
(* together with the slots its signals invoke, is one atomic action.       *)
(***************************************************************************)
EXTENDS Integers, Sequences, FiniteSets, TLC

VARIABLES
    config,         \* app_state.config
    running,        \* app_state.running
    points,         \* app_state.dataset.points
    maxLength,      \* app_state.dataset.max_length
    genConfig,      \* data_stream.config
    xCurrent,       \* data_stream.x_current
    yLast,          \* data_stream.y_last
    timerActive,    \* data_stream.timer.isActive()
    plot,           \* the (x, y) data of plot_widget.line
    pauseEnabled,   \* dashboard_tab.pause_button.isEnabled()
    resumeEnabled,  \* dashboard_tab.resume_button.isEnabled()
    status,         \* the kind of text last given to update_status
    fs,             \* the file at the path of file_path_input: "missing" or its rows
    closed,         \* closeEvent has been accepted
    op,             \* the operation that ran last
    arg,            \* the input that operation was given
    ret,            \* what that operation returned (or that it raised)
    emitted,        \* the signals the generator emitted during that operation
    warned,         \* that operation logged the unknown-waveform warning
    lastSignal,     \* the last of started and stopped the generator emitted, or "none"
    walkBound,      \* the sum of the amplitudes of the _random_walk steps since y_last was 0.0
    added           \* SpecBuffer: every point given to add_point since the last clear()

vars == <<config, running, points, maxLength, genConfig, xCurrent, yLast,
          timerActive, plot, pauseEnabled, resumeEnabled, status, fs, closed,
          op, arg, ret, emitted, warned, lastSignal,
          walkBound, added>>

-----------------------------------------------------------------------------
(* Bounds of the model *)

\* x_current never passes MaxX: it caps the number of ticks between two resets.
MaxX == 3
\* Save Data is clicked while the dataset holds at most MaxSaveLen points.
MaxSaveLen == 1
\* Length of the point lists given to write_csv in SpecCsv.
MaxCsvLen == 2
\* Number of add_point calls in SpecBuffer.
MaxAdds == 4
\* Largest capacity tried in SpecBuffer.
MaxCap == 3
\* SpecSample: _random_walk is called at most MaxWalk times on one generator.
MaxWalk == 2
\* SpecStream: ticks are delivered while the plot holds fewer than MaxPlot points.
MaxPlot == 2
\* float() is tabulated for the finite floats n/20 with |n| <= MaxNum.
MaxNum == 120

\* The smallest max_points validate() accepts: 10 in the source, scaled down so
\* that a buffer can fill up within MaxX ticks.
MinMaxPoints == 2
\* The factory default of max_points: 5000 in the source, scaled down likewise.
DefaultMaxPoints == 3

-----------------------------------------------------------------------------
(* Floats *)

Fin(n) == <<"fin", n>>
NaN == <<"nan", 0>>
PosInf == <<"inf", 1>>
NegInf == <<"inf", -1>>

IsNaN(f) == f[1] = "nan"

\* Python's == on two distinct float objects: NaN is equal to nothing.
PyFloatEq(a, b) == ~IsNaN(a) /\ ~IsNaN(b) /\ a = b

\* == on two (x, y) tuples whose members are distinct objects.
PyPointEq(p, q) == PyFloatEq(p[1], q[1]) /\ PyFloatEq(p[2], q[2])

\* == on two lists of such tuples.
PyListEq(s, t) ==
    /\ Len(s) = Len(t)
    /\ \A i \in 1..Len(s) : PyPointEq(s[i], t[i])

Abs(n) == IF n < 0 THEN -n ELSE n

Min(a, b) == IF a < b THEN a ELSE b

\* The last n elements of s.
LastN(s, n) == SubSeq(s, Len(s) - n + 1, Len(s))

-----------------------------------------------------------------------------
(* ConfigModel (models/config_model.py) *)

\* float <= 0, float < 0 and float > 0 as Python evaluates them: every
\* comparison with NaN is False.
PyLeZero(f) == CASE f[1] = "fin" -> f[2] <= 0
                 [] f[1] = "inf" -> f[2] < 0
                 [] OTHER -> FALSE
PyLtZero(f) == CASE f[1] = "fin" -> f[2] < 0
                 [] f[1] = "inf" -> f[2] < 0
                 [] OTHER -> FALSE
PyGtZero(f) == CASE f[1] = "fin" -> f[2] > 0
                 [] f[1] = "inf" -> f[2] > 0
                 [] OTHER -> FALSE
PyGeZero(f) == CASE f[1] = "fin" -> f[2] >= 0
                 [] f[1] = "inf" -> f[2] > 0
                 [] OTHER -> FALSE

VALID_WAVEFORMS == {"sine", "square", "randomwalk"}

\* ConfigModel.defaults(): amplitude 1.0, frequency 0.5, noise 0.05, x_step 0.05.
DefaultConfig ==
    [amplitude |-> Fin(20), frequency |-> Fin(10), noise |-> Fin(1),
     x_step |-> Fin(1), waveform |-> "sine", max_points |-> DefaultMaxPoints]

MsgAmplitude == "Amplitude must be positive."
MsgFrequency == "Frequency must be non-negative."
MsgNoise == "Noise must be non-negative."
MsgXStep == "X-step must be positive."
MsgWaveform == "Waveform must be one of ('sine', 'square', 'randomwalk')."
MsgMaxPoints == "Max points must be at least 10."

\* ConfigModel.validate(): <<is_valid, error_message>>.
validate(c) ==
    IF PyLeZero(c.amplitude) THEN <<FALSE, MsgAmplitude>>
    ELSE IF PyLtZero(c.frequency) THEN <<FALSE, MsgFrequency>>
    ELSE IF PyLtZero(c.noise) THEN <<FALSE, MsgNoise>>
    ELSE IF PyLeZero(c.x_step) THEN <<FALSE, MsgXStep>>
    ELSE IF c.waveform \notin VALID_WAVEFORMS THEN <<FALSE, MsgWaveform>>
    ELSE IF c.max_points < MinMaxPoints THEN <<FALSE, MsgMaxPoints>>
    ELSE <<TRUE, "">>

-----------------------------------------------------------------------------
(* DatasetModel (models/dataset_model.py), on a record s of the state *)

\* add_point evicting the newest element instead of the oldest.
add_point_pop_last(s, p) ==
    [s EXCEPT !.points = IF Len(@) + 1 > s.maxLength THEN @ ELSE Append(@, p)]

\* add_point that evicts from the front until the buffer fits max_length.
add_point_trim_all(s, p) ==
    LET appended == Append(s.points, p)
    IN  [s EXCEPT !.points = LastN(appended, Min(Len(appended), s.maxLength))]

\* DatasetModel.add_point(x, y), p = (x, y).
add_point(s, p) ==
    LET appended == Append(s.points, p)
    IN  [s EXCEPT !.points = IF Len(appended) > s.maxLength
                             THEN Tail(appended) ELSE appended]

\* DatasetModel.clear().
dataset_clear(s) == [s EXCEPT !.points = <<>>]

point_count(s) == Len(s.points)

\* DatasetModel.last_point(): <<>> stands for None.
last_point(s) == IF s.points # <<>> THEN s.points[Len(s.points)] ELSE <<>>

get_x_values(s) == [i \in 1..Len(s.points) |-> s.points[i][1]]
get_y_values(s) == [i \in 1..Len(s.points) |-> s.points[i][2]]

-----------------------------------------------------------------------------
(* DataStream (core/data_stream.py) and the slots MainWindow._connect_signals
   connects to its signals, on a record s of the state *)

\* The value n of a finite float n/20.
Val(f) == f[2]

\* AppState.start(), pause(), resume().
app_start(s) == [s EXCEPT !.running = TRUE]
app_pause(s) == [s EXCEPT !.running = FALSE]
app_resume(s) == [s EXCEPT !.running = TRUE]

\* AppState.clear().
app_clear(s) == [dataset_clear(s) EXCEPT !.running = FALSE]

\* DashboardTab.enable_controls(running); Clear, Save and Load are always enabled.
enable_controls(s, r) == [s EXCEPT !.pauseEnabled = r, !.resumeEnabled = ~r]

\* DashboardTab.update_status(message).
update_status(s, m) == [s EXCEPT !.status = m]

\* append_point that keeps only as many points on the plot as the dataset
\* may hold.
plot_append_point_window(s, p) ==
    [s EXCEPT !.plot = IF Len(@) + 1 > s.maxLength
                       THEN Tail(Append(@, p)) ELSE Append(@, p)]

\* PlotWidget.append_point, set_data and clear.
plot_append_point(s, p) == [s EXCEPT !.plot = Append(@, p)]
plot_set_data(s, xs, ys) ==
    IF Len(xs) # Len(ys) THEN s
    ELSE [s EXCEPT !.plot = [i \in 1..Len(xs) |-> <<xs[i], ys[i]>>]]
plot_clear(s) == [s EXCEPT !.plot = <<>>]

\* MainWindow.on_stream_started, the slot of DataStream.started.
on_stream_started(s) == enable_controls(app_start(s), TRUE)

\* on_stream_stopped that updates the buttons and leaves app_state alone.
on_stream_stopped_buttons_only(s) == enable_controls(s, FALSE)

\* MainWindow.on_stream_stopped, the slot of DataStream.stopped.
on_stream_stopped(s) == enable_controls(app_pause(s), FALSE)

\* MainWindow.on_new_point(x, y), the slot of DataStream.new_point.
on_new_point(s, x, y) ==
    plot_append_point(add_point(s, <<Fin(x), Fin(y)>>), <<Fin(x), Fin(y)>>)

\* started.emit(), stopped.emit(), new_point.emit(x, y): the emission is
\* recorded and the connected slot runs before emit returns.
emit_started(s) == on_stream_started([s EXCEPT !.emitted = Append(@, <<"started">>)])
emit_stopped(s) == on_stream_stopped([s EXCEPT !.emitted = Append(@, <<"stopped">>)])
emit_new_point(s, x, y) ==
    on_new_point([s EXCEPT !.emitted = Append(@, <<"new_point", x, y>>)], x, y)

\* start() that does not look at isActive().
start_unconditional(s) == emit_started([s EXCEPT !.timerActive = TRUE])

\* DataStream.start().
start(s) ==
    IF ~s.timerActive
    THEN emit_started([s EXCEPT !.timerActive = TRUE])
    ELSE s

\* stop() that emits stopped and leaves the timer running.
stop_keep_timer(s) == IF s.timerActive THEN emit_stopped(s) ELSE s

\* DataStream.stop().
stop(s) ==
    IF s.timerActive
    THEN emit_stopped([s EXCEPT !.timerActive = FALSE])
    ELSE s

\* reset() that leaves y_last as it is.
reset_x_only(s) == [s EXCEPT !.xCurrent = 0]

\* DataStream.reset().
reset(s) == [s EXCEPT !.xCurrent = 0, !.yLast = 0, !.walkBound = 0]

\* DataStream.set_config(config).
set_config(s, c) == [s EXCEPT !.genConfig = c]

\* 20 * sin(2 pi j / 40) to the nearest integer, j in 0..39: the sine on the
\* grid of the model, a fortieth of a turn apart.
SinQuarter == <<0, 3, 6, 9, 12, 14, 16, 18, 19, 20, 20>>
Sin20(j) ==
    IF j <= 10 THEN SinQuarter[j + 1]
    ELSE IF j <= 20 THEN SinQuarter[20 - j + 1]
    ELSE IF j <= 30 THEN -SinQuarter[j - 20 + 1]
    ELSE -SinQuarter[40 - j + 1]

\* a * b / 20 rounded towards zero.
MulDiv20(a, b) ==
    IF a * b >= 0 THEN (a * b) \div 20 ELSE -((-(a * b)) \div 20)

\* DataStream._sine_wave(x): amplitude * sin(2 pi frequency x) with the phase
\* frequency * x = (f/20)(x/20) turns cut to the grid of Sin20.
sine_wave(c, x) ==
    MulDiv20(Val(c.amplitude), Sin20(((Val(c.frequency) * x) \div 10) % 40))

\* _square_wave comparing phase <= 0.5.
square_wave_phase_le(c, x) ==
    LET f == Val(c.frequency)
        firstHalf == IF f > 0 THEN 2 * ((f * x) % 400) <= 400
                     ELSE 2 * (x % 20) <= 20
    IN  IF firstHalf THEN Val(c.amplitude) ELSE -Val(c.amplitude)

\* DataStream._square_wave(x): period = 1/frequency if frequency > 0 else 1.0;
\* phase = (x % period) / period; phase < 0.5 is 2 (x % period) < period, which
\* in twentieths is 2 ((f x) % 400) < 400 for f > 0 and 2 (x % 20) < 20 else.
square_wave(c, x) ==
    LET f == Val(c.frequency)
        firstHalf == IF f > 0 THEN 2 * ((f * x) % 400) < 400
                     ELSE 2 * (x % 20) < 20
    IN  IF firstHalf THEN Val(c.amplitude) ELSE -Val(c.amplitude)

\* The values random.uniform(-amplitude, amplitude) is sampled at.
UniformDraws(c) == {-Val(c.amplitude), Val(c.amplitude)}

\* random.gauss(0, 1): a sigma that is not the configuration's noise.
GaussDrawsUnit(c) == {-1, 1}

\* The values random.gauss(0, noise) is sampled at; with noise = 0 it is 0.0.
GaussDraws(c) == {-Val(c.noise), Val(c.noise)}

\* _random_walk assigning the step to y_last instead of adding it.
random_walk_assign(s, step) ==
    [s EXCEPT !.yLast = step, !.walkBound = @ + Abs(Val(s.genConfig.amplitude))]

\* DataStream._random_walk() with the drawn step: y_last += step.
random_walk(s, step) ==
    [s EXCEPT !.yLast = @ + step, !.walkBound = @ + Abs(Val(s.genConfig.amplitude))]

\* _generate_y sampling the sine for every waveform it does not know.
generate_y_unknown_as_sine(s, step, noise) ==
    LET c == s.genConfig
    IN  CASE c.waveform = "square" -> <<square_wave(c, s.xCurrent) + noise, s>>
          [] c.waveform = "randomwalk" ->
                <<random_walk(s, step).yLast + noise, random_walk(s, step)>>
          [] OTHER -> <<sine_wave(c, s.xCurrent) + noise, s>>

\* DataStream._generate_y() with the drawn step and noise: <<y, state after>>.
generate_y(s, step, noise) ==
    LET c == s.genConfig
    IN  CASE c.waveform = "sine" -> <<sine_wave(c, s.xCurrent) + noise, s>>
          [] c.waveform = "square" -> <<square_wave(c, s.xCurrent) + noise, s>>
          [] c.waveform = "randomwalk" ->
                <<random_walk(s, step).yLast + noise, random_walk(s, step)>>
          [] OTHER -> <<0 + noise, [s EXCEPT !.warned = TRUE]>>

\* _on_timer advancing the cursor before it emits.
on_timer_advance_first(s, step, noise) ==
    LET g == generate_y(s, step, noise)
        t == [g[2] EXCEPT !.xCurrent = @ + Val(s.genConfig.x_step)]
    IN  emit_new_point(t, t.xCurrent, g[1])

\* DataStream._on_timer() with the drawn step and noise.
on_timer(s, step, noise) ==
    LET g == generate_y(s, step, noise)
        t == emit_new_point(g[2], g[2].xCurrent, g[1])
    IN  [t EXCEPT !.xCurrent = @ + Val(t.genConfig.x_step)]

-----------------------------------------------------------------------------
(* CSV files (core/io_manager.py) *)

\* The one path the model reads and writes, and the empty text of the input.
Path == "data.csv"

\* A file is [kind, rows]: kind "missing" (no such file), "unreadable" (open
\* raises an IOError), "undecodable" (decoding its bytes raises a
\* UnicodeDecodeError) or "file", with the rows csv.reader yields.
NoFile == [kind |-> "missing", rows |-> <<>>]
File(rows) == [kind |-> "file", rows |-> rows]

\* str(float) with one decimal, as "%.1f" would print it.
ReprOneDecimal(f) ==
    CASE f[1] = "nan" -> "nan"
      [] f[1] = "inf" -> IF f[2] > 0 THEN "inf" ELSE "-inf"
      [] OTHER ->
            (IF f[2] < 0 THEN "-" ELSE "") \o ToString(Abs(f[2]) \div 20)
            \o "." \o ToString((5 * (Abs(f[2]) % 20)) \div 10)

\* str(float), which csv.writer writes: the shortest decimal that reads back
\* as the same float; n/20 has at most two decimals.
ReprFloat(f) ==
    CASE f[1] = "nan" -> "nan"
      [] f[1] = "inf" -> IF f[2] > 0 THEN "inf" ELSE "-inf"
      [] OTHER ->
            LET a == Abs(f[2])
                h == 5 * (a % 20)
                frac == IF h % 10 = 0 THEN ToString(h \div 10)
                        ELSE IF h < 10 THEN "0" \o ToString(h)
                        ELSE ToString(h)
            IN  (IF f[2] < 0 THEN "-" ELSE "") \o ToString(a \div 20) \o "." \o frac

ReprTable == [n \in -MaxNum..MaxNum |-> ReprFloat(Fin(n))]

\* float(token): <<TRUE, value>>, or <<FALSE, NaN>> for a ValueError.  The
\* decimals of the floats n/20, integer literals and the special tokens parse.
ParseFloat(tok) ==
    IF tok \in {"nan", "NaN"} THEN <<TRUE, NaN>>
    ELSE IF tok \in {"inf", "Infinity"} THEN <<TRUE, PosInf>>
    ELSE IF tok \in {"-inf", "-Infinity"} THEN <<TRUE, NegInf>>
    ELSE IF \E n \in -MaxNum..MaxNum : ReprTable[n] = tok
         THEN <<TRUE, Fin(CHOOSE n \in -MaxNum..MaxNum : ReprTable[n] = tok)>>
    ELSE IF \E k \in -(MaxNum \div 20)..(MaxNum \div 20) : ToString(k) = tok
         THEN <<TRUE, Fin(20 * (CHOOSE k \in -(MaxNum \div 20)..(MaxNum \div 20) :
                                    ToString(k) = tok))>>
    ELSE <<FALSE, NaN>>

Header == <<"x", "y">>

RECURSIVE WriteRowsReversed(_)
\* The rows written last point first.
WriteRowsReversed(pts) ==
    IF pts = <<>> THEN <<>>
    ELSE WriteRowsReversed(Tail(pts))
         \o <<<<ReprFloat(pts[1][1]), ReprFloat(pts[1][2])>>>>

RECURSIVE WriteRows(_)
\* for x, y in points: writer.writerow([x, y])
WriteRows(pts) ==
    IF pts = <<>> THEN <<>>
    ELSE <<<<ReprFloat(pts[1][1]), ReprFloat(pts[1][2])>>>> \o WriteRows(Tail(pts))

\* What a call returns: it raised, or it returned val.
Returned(v) == [raised |-> FALSE, val |-> v]
Raised == [raised |-> TRUE, val |-> <<>>]
NoRet == Returned(<<>>)

\* The body of write_csv's try block: [exc, val, file].  fault is what mkdir or
\* open raise: "none", "IOError" (permission denied) or "ValueError" (a path
\* that cannot be a file name); the file is then left as it was.
write_csv_try(file, pts, fault) ==
    IF fault # "none" THEN [exc |-> fault, val |-> <<>>, file |-> file]
    ELSE [exc |-> "none",
          val |-> <<TRUE, "Saved " \o ToString(Len(pts)) \o " points to " \o Path>>,
          file |-> File(<<Header>> \o WriteRows(pts))]

\* write_csv catching IOError only.
write_csv_ioerror_only(file, pts, fault) ==
    LET r == write_csv_try(file, pts, fault)
    IN  CASE r.exc = "none" -> [ret |-> Returned(r.val), file |-> r.file]
          [] r.exc = "IOError" ->
                [ret |-> Returned(<<FALSE, "Failed to write CSV: ">>), file |-> r.file]
          [] OTHER -> [ret |-> Raised, file |-> r.file]

\* write_csv(file_path, points): [ret, file], ret.val = <<success, message>>.
write_csv(file, pts, fault) ==
    LET r == write_csv_try(file, pts, fault)
    IN  CASE r.exc = "none" -> [ret |-> Returned(r.val), file |-> r.file]
          [] r.exc = "IOError" ->
                [ret |-> Returned(<<FALSE, "Failed to write CSV: ">>), file |-> r.file]
          [] OTHER ->
                [ret |-> Returned(<<FALSE, "Unexpected error writing CSV: ">>),
                 file |-> r.file]

RECURSIVE ReadRows(_, _, _)
\* The loop over the data rows, from row i on, with the points read so far:
\* <<points, message>> of the return it reaches, message "" for the loop's end.
\* isinstance(x, float) holds of whatever float() returns, so that check
\* never raises.
ReadRows(rows, i, acc) ==
    IF i > Len(rows) THEN <<acc, "">>
    ELSE IF Len(rows[i]) # 2
    THEN <<<<>>, "Row " \o ToString(i) \o ": expected 2 values, got "
                 \o ToString(Len(rows[i]))>>
    ELSE IF ~ParseFloat(rows[i][1])[1] \/ ~ParseFloat(rows[i][2])[1]
    THEN <<<<>>, "Row " \o ToString(i) \o ": invalid numeric values: "
                 \o "could not convert string to float">>
    ELSE ReadRows(rows, i + 1,
                  Append(acc, <<ParseFloat(rows[i][1])[2], ParseFloat(rows[i][2])[2]>>))

RECURSIVE ReadRowsPartial(_, _, _)
\* The loop returning the rows read so far when it meets a bad row.
ReadRowsPartial(rows, i, acc) ==
    IF i > Len(rows) THEN <<acc, "">>
    ELSE IF Len(rows[i]) # 2
    THEN <<acc, "Row " \o ToString(i) \o ": expected 2 values, got "
                \o ToString(Len(rows[i]))>>
    ELSE IF ~ParseFloat(rows[i][1])[1] \/ ~ParseFloat(rows[i][2])[1]
    THEN <<acc, "Row " \o ToString(i) \o ": invalid numeric values: "
                \o "could not convert string to float">>
    ELSE ReadRowsPartial(rows, i + 1,
                  Append(acc, <<ParseFloat(rows[i][1])[2], ParseFloat(rows[i][2])[2]>>))

\* The loop keeping the rows read before the bad one.
read_rows_partial(rows) == ReadRowsPartial(rows, 2, <<>>)

\* The loop of read_csv over the rows after the header.
read_rows(rows) == ReadRows(rows, 2, <<>>)

\* The body of read_csv's try block: [exc, val].
read_csv_try(file) ==
    CASE file.kind = "missing" ->
            [exc |-> "none", val |-> <<<<>>, "File not found: " \o Path>>]
      [] file.kind = "unreadable" -> [exc |-> "IOError", val |-> <<>>]
      [] file.kind = "undecodable" -> [exc |-> "ValueError", val |-> <<>>]
      [] OTHER ->
            IF file.rows = <<>>
            THEN [exc |-> "none", val |-> <<<<>>, "CSV file is empty">>]
            ELSE IF file.rows[1] # Header
            THEN [exc |-> "none", val |-> <<<<>>, "Expected header ['x', 'y'], got ">>]
            ELSE LET r == read_rows(file.rows)
                 IN  IF r[2] # "" THEN [exc |-> "none", val |-> r]
                     ELSE [exc |-> "none",
                           val |-> <<r[1], "Loaded " \o ToString(Len(r[1]))
                                           \o " points from " \o Path>>]

\* read_csv(file_path): val = <<points, message>>.
read_csv(file) ==
    LET r == read_csv_try(file)
    IN  CASE r.exc = "none" -> Returned(r.val)
          [] r.exc = "IOError" -> Returned(<<<<>>, "Failed to read CSV: ">>)
          [] OTHER -> Returned(<<<<>>, "Unexpected error reading CSV: ">>)

\* message contains keyword.
Contains(msg, kw) ==
    \E i \in 1..Len(msg) :
        i + Len(kw) - 1 <= Len(msg) /\ SubSeq(msg, i, i + Len(kw) - 1) = kw

-----------------------------------------------------------------------------
(* AppState (core/state.py) and the handlers of MainWindow (main_window.py) *)

\* apply_config storing the configuration before it validates it.
apply_config_store_first(s, c) ==
    [s EXCEPT !.config = c, !.maxLength = c.max_points,
              !.ret = Returned(<<validate(c)[1]>>)]

\* apply_config cutting the dataset down to the new max_points at once.
apply_config_truncating(s, c) ==
    IF ~validate(c)[1] THEN [s EXCEPT !.ret = Returned(<<FALSE>>)]
    ELSE [s EXCEPT !.config = c, !.maxLength = c.max_points,
                   !.points = LastN(@, Min(Len(@), c.max_points)),
                   !.ret = Returned(<<TRUE>>)]

\* AppState.apply_config(config); ret.val = <<the boolean it returns>>.
apply_config(s, c) ==
    IF ~validate(c)[1] THEN [s EXCEPT !.ret = Returned(<<FALSE>>)]
    ELSE [s EXCEPT !.config = c, !.maxLength = c.max_points,
                   !.ret = Returned(<<TRUE>>)]

\* AppState.reset_config().
reset_config(s) ==
    [s EXCEPT !.config = DefaultConfig, !.maxLength = DefaultConfig.max_points]

\* MainWindow.on_pause().
on_pause(s) ==
    enable_controls(update_status(app_pause(stop(s)), "Paused"), FALSE)

\* on_resume putting the cursor back to the start before it starts the stream.
on_resume_with_reset(s) ==
    enable_controls(update_status(app_resume(start(reset(s))), "Running"), TRUE)

\* MainWindow.on_resume().
on_resume(s) ==
    enable_controls(update_status(app_resume(start(s)), "Running"), TRUE)

\* MainWindow.on_clear().
on_clear(s) ==
    enable_controls(
        update_status(plot_clear(reset(app_clear(stop(s)))), "Cleared"), FALSE)

\* MainWindow.on_save_data() with the text of file_path_input and the fault
\* the file system answers the write with.
on_save_data(s, path, fault) ==
    IF path = "" THEN s
    ELSE LET w == write_csv(s.fs, s.points, fault)
             t == [s EXCEPT !.fs = w.file, !.ret = w.ret]
         IN  IF w.ret.val[1] THEN update_status(t, "Saved: " \o w.ret.val[2])
             ELSE update_status(t, "Save failed: " \o w.ret.val[2])

RECURSIVE AddAll(_, _)
\* for x, y in points: self.app_state.dataset.add_point(x, y)
AddAll(s, pts) ==
    IF pts = <<>> THEN s ELSE AddAll(add_point(s, pts[1]), Tail(pts))

\* on_load_data() that does not clear the dataset before it adds the points
\* of the file.
on_load_data_appending(s, path) ==
    IF path = "" THEN s
    ELSE LET r == read_csv(s.fs)
             t == [s EXCEPT !.ret = r]
         IN  IF r.val[1] # <<>>
             THEN LET u == AddAll(reset(stop(t)), r.val[1])
                      v == plot_set_data(u, get_x_values(u), get_y_values(u))
                  IN  enable_controls(
                          update_status(v, "Loaded: " \o r.val[2]), FALSE)
             ELSE update_status(t, "Load failed: " \o r.val[2])

\* on_load_data() that replaces the dataset with whatever list read_csv
\* returned, the empty one included.
on_load_data_any_list(s, path) ==
    IF path = "" THEN s
    ELSE LET r == read_csv(s.fs)
             t == [s EXCEPT !.ret = r]
             u == AddAll(reset(app_clear(stop(t))), r.val[1])
             v == plot_set_data(u, get_x_values(u), get_y_values(u))
         IN  enable_controls(
                 update_status(v, IF r.val[1] # <<>>
                                  THEN "Loaded: " \o r.val[2]
                                  ELSE "Load failed: " \o r.val[2]), FALSE)

\* MainWindow.on_load_data() with the text of file_path_input.
on_load_data(s, path) ==
    IF path = "" THEN s
    ELSE LET r == read_csv(s.fs)
             t == [s EXCEPT !.ret = r]
         IN  IF r.val[1] # <<>>
             THEN LET u == AddAll(reset(app_clear(stop(t))), r.val[1])
                      v == plot_set_data(u, get_x_values(u), get_y_values(u))
                  IN  enable_controls(
                          update_status(v, "Loaded: " \o r.val[2]), FALSE)
             ELSE update_status(t, "Load failed: " \o r.val[2])

\* on_apply_config() that stops the stream, hands over the configuration and
\* starts the stream again if it was running.
on_apply_config_restarting(s, c) ==
    LET t == apply_config(s, c)
    IN  IF t.ret.val[1]
        THEN LET u == set_config(stop(t), c)
             IN  update_status(IF t.timerActive THEN start(u) ELSE u,
                               "Configuration applied")
        ELSE update_status(t, "Config error: " \o validate(c)[2])

\* on_apply_config() that hands the configuration to the data stream whatever
\* apply_config answered.
on_apply_config_always_set(s, c) ==
    LET t == set_config(apply_config(s, c), c)
    IN  IF t.ret.val[1]
        THEN update_status(t, "Configuration applied")
        ELSE update_status(t, "Config error: " \o validate(c)[2])

\* MainWindow.on_apply_config() with the configuration get_config() builds.
on_apply_config(s, c) ==
    LET t == apply_config(s, c)
    IN  IF t.ret.val[1]
        THEN update_status(set_config(t, c), "Configuration applied")
        ELSE update_status(t, "Config error: " \o validate(c)[2])

\* on_reset_config() that resets app_state and does not hand the defaults to
\* the data stream.
on_reset_config_state_only(s) ==
    update_status(reset_config(s), "Configuration reset to defaults")

\* MainWindow.on_reset_config().
on_reset_config(s) ==
    LET t == reset_config(s)
    IN  update_status(set_config(t, t.config), "Configuration reset to defaults")

\* MainWindow.closeEvent(event).
closeEvent(s) == [stop(s) EXCEPT !.closed = TRUE]

-----------------------------------------------------------------------------
(* The state machine *)

\* The state as a record, at the start of an operation: nothing emitted,
\* returned or logged yet.
Cur ==
    [config |-> config, running |-> running, points |-> points,
     maxLength |-> maxLength, genConfig |-> genConfig, xCurrent |-> xCurrent,
     yLast |-> yLast, timerActive |-> timerActive, plot |-> plot,
     pauseEnabled |-> pauseEnabled, resumeEnabled |-> resumeEnabled,
     status |-> status, fs |-> fs, closed |-> closed, ret |-> NoRet,
     emitted |-> <<>>, warned |-> FALSE, walkBound |-> walkBound,
     added |-> added]

\* The started and stopped emissions among the emissions e, in order.
RECURSIVE StartStops(_)
StartStops(e) ==
    IF e = <<>> THEN <<>>
    ELSE IF e[1][1] \in {"started", "stopped"}
         THEN <<e[1][1]>> \o StartStops(Tail(e))
         ELSE StartStops(Tail(e))

\* The state after operation o with input a left the record s.
Commit(s, o, a) ==
    /\ lastSignal' = IF StartStops(s.emitted) = <<>> THEN lastSignal
                     ELSE StartStops(s.emitted)[Len(StartStops(s.emitted))]
    /\ config' = s.config
    /\ running' = s.running
    /\ points' = s.points
    /\ maxLength' = s.maxLength
    /\ genConfig' = s.genConfig
    /\ xCurrent' = s.xCurrent
    /\ yLast' = s.yLast
    /\ timerActive' = s.timerActive
    /\ plot' = s.plot
    /\ pauseEnabled' = s.pauseEnabled
    /\ resumeEnabled' = s.resumeEnabled
    /\ status' = s.status
    /\ fs' = s.fs
    /\ closed' = s.closed
    /\ ret' = s.ret
    /\ emitted' = s.emitted
    /\ warned' = s.warned
    /\ walkBound' = s.walkBound
    /\ added' = s.added
    /\ op' = o
    /\ arg' = a

\* The configurations the model applies: the defaults, a square wave and a
\* random walk at the smallest capacity, and configurations validate() rejects.
SquareConfig ==
    [amplitude |-> Fin(20), frequency |-> Fin(100), noise |-> Fin(0),
     x_step |-> Fin(2), waveform |-> "square", max_points |-> MinMaxPoints]
WalkConfig ==
    [amplitude |-> Fin(20), frequency |-> Fin(0), noise |-> Fin(0),
     x_step |-> Fin(2), waveform |-> "randomwalk", max_points |-> MinMaxPoints]
InvalidConfigs ==
    { [DefaultConfig EXCEPT !.amplitude = Fin(0), !.waveform = "triangle"],
      [SquareConfig EXCEPT !.x_step = Fin(0)],
      [WalkConfig EXCEPT !.max_points = MinMaxPoints - 1] }
ConfigInputs == {DefaultConfig, SquareConfig} \cup InvalidConfigs

\* The configurations given to the generator directly: set_config validates
\* nothing.
StreamConfigs ==
    {DefaultConfig, SquareConfig, WalkConfig,
     [DefaultConfig EXCEPT !.waveform = "triangle"]}

\* The files the user may point file_path_input at.
AppFiles ==
    { NoFile,
      File(<<Header>>),
      File(<<Header, <<"1", "2">>, <<"abc", "def">>>>),
      File(<<Header, <<"0.5", "1">>, <<"1.0", "2">>, <<"1.5", "-1">>>>) }

\* The files read_csv is tried on.
SampleFiles ==
    { NoFile,
      [kind |-> "unreadable", rows |-> <<>>],
      [kind |-> "undecodable", rows |-> <<>>],
      File(<<>>),
      File(<<Header>>),
      File(<<<<"a", "b">>, <<"1", "2">>>>),
      File(<<Header, <<"1", "2">>, <<"abc", "def">>>>),
      File(<<Header, <<"1", "2">>, <<"1", "2", "3">>>>),
      File(<<Header, <<"1", "2">>, <<>>>>),
      File(<<Header, <<"0.5", "1">>, <<"1.0", "2">>, <<"1.5", "-1">>, <<"2.0", "0.05">>>>),
      File(<<Header, <<"nan", "inf">>>>) }

\* MainWindow.__init__: AppState(), DataStream(app_state.config), DashboardTab()
\* with every button enabled and the status label "Ready"; nothing starts the
\* timer.
Init ==
    /\ config = DefaultConfig
    /\ running = FALSE
    /\ points = <<>>
    /\ maxLength = DefaultMaxPoints
    /\ genConfig = DefaultConfig
    /\ xCurrent = 0
    /\ yLast = 0
    /\ timerActive = FALSE
    /\ plot = <<>>
    /\ pauseEnabled = TRUE
    /\ resumeEnabled = TRUE
    /\ status = "Ready"
    /\ fs = NoFile
    /\ closed = FALSE
    /\ op = "init"
    /\ arg = <<>>
    /\ ret = NoRet
    /\ emitted = <<>>
    /\ warned = FALSE
    /\ lastSignal = "none"
    /\ walkBound = 0
    /\ added = <<>>

\* A click on Pause, Resume, Clear, Save Data, Load Data, Apply, Reset Defaults.
OnPause == ~closed /\ pauseEnabled /\ Commit(on_pause(Cur), "on_pause", <<>>)
OnResume == ~closed /\ resumeEnabled /\ Commit(on_resume(Cur), "on_resume", <<>>)
OnClear == ~closed /\ Commit(on_clear(Cur), "on_clear", <<>>)
OnSaveData ==
    /\ ~closed
    /\ Len(points) <= MaxSaveLen
    /\ \E path \in {"", Path}, fault \in {"none", "IOError", "ValueError"} :
          Commit(on_save_data(Cur, path, fault), "on_save_data", <<path>>)
OnLoadData ==
    /\ ~closed
    /\ \E path \in {"", Path} :
          Commit(on_load_data(Cur, path), "on_load_data", <<path>>)
OnApplyConfig ==
    /\ ~closed
    /\ \E c \in ConfigInputs :
          Commit(on_apply_config(Cur, c), "on_apply_config", <<c>>)
OnResetConfig == ~closed /\ Commit(on_reset_config(Cur), "on_reset_config", <<>>)

\* The window is closed.
CloseEvent == ~closed /\ Commit(closeEvent(Cur), "closeEvent", <<>>)

\* The active timer times out: DataStream._on_timer.
Tick ==
    /\ timerActive
    /\ xCurrent + Val(genConfig.x_step) <= MaxX
    /\ \E step \in UniformDraws(genConfig), noise \in GaussDraws(genConfig) :
          Commit(on_timer(Cur, step, noise), "on_timer", <<>>)

\* Another file is put at the path.
ExternalFile ==
    /\ ~closed
    /\ \E f \in AppFiles :
          f # fs /\ Commit([Cur EXCEPT !.fs = f], "external_file", <<>>)

Next ==
    \/ OnPause
    \/ OnResume
    \/ OnClear
    \/ OnSaveData
    \/ OnLoadData
    \/ OnApplyConfig
    \/ OnResetConfig
    \/ CloseEvent
    \/ Tick
    \/ ExternalFile

Spec == Init /\ [][Next]_vars

-----------------------------------------------------------------------------
(* SpecStream: the control surface of the generator (start, stop, reset,
   set_config) called directly and in any order, the window's slots connected *)

StreamStart == Commit(start(Cur), "start", <<>>)
StreamStop == Commit(stop(Cur), "stop", <<>>)
StreamReset == Commit(reset(Cur), "reset", <<>>)
StreamSetConfig ==
    \E c \in StreamConfigs : Commit(set_config(Cur, c), "set_config", <<c>>)

\* A tick of the timer, while the plot holds fewer than MaxPlot points.
StreamTick == Len(plot) < MaxPlot /\ Tick

NextStream ==
    \/ StreamStart
    \/ StreamStop
    \/ StreamReset
    \/ StreamSetConfig
    \/ StreamTick

SpecStream == Init /\ [][NextStream]_vars

-----------------------------------------------------------------------------
(* SpecFault: ticks during which an exception is raised *)

\* _on_timer when _generate_y raises (where = "sample") or when the slot
\* on_new_point raises in PlotWidget.append_point, after add_point (where =
\* "handler").  _on_timer has no try block.  An exception of the slot either
\* passes through emit, so that the cursor is not advanced, or is reported by
\* the binding while emit returns: propagates picks one.
on_timer_fault(s, step, noise, where, propagates) ==
    IF where = "sample" THEN [s EXCEPT !.ret = Raised]
    ELSE LET g == generate_y(s, step, noise)
             e == [g[2] EXCEPT !.emitted = Append(@, <<"new_point", s.xCurrent, g[1]>>)]
             u == add_point(e, <<Fin(s.xCurrent), Fin(g[1])>>)
         IN  IF propagates THEN [u EXCEPT !.ret = Raised]
             ELSE [u EXCEPT !.xCurrent = @ + Val(u.genConfig.x_step)]

TickFault ==
    /\ timerActive
    /\ xCurrent + Val(genConfig.x_step) <= MaxX
    /\ \E step \in UniformDraws(genConfig), noise \in GaussDraws(genConfig),
          where \in {"sample", "handler"}, propagates \in BOOLEAN :
          Commit(on_timer_fault(Cur, step, noise, where, propagates),
                 "on_timer_fault", <<where>>)

NextFault ==
    \/ OnPause
    \/ OnResume
    \/ OnClear
    \/ OnApplyConfig
    \/ CloseEvent
    \/ Tick
    \/ TickFault

SpecFault == Init /\ [][NextFault]_vars

-----------------------------------------------------------------------------
(* SpecValidate: validate() on every configuration of ValidateInputs *)

ValidateInputs ==
    [amplitude : {NaN, Fin(-20), Fin(0), Fin(20)},
     frequency : {NaN, Fin(-10), Fin(0), Fin(10)},
     noise : {NaN, Fin(-1), Fin(0), Fin(1)},
     x_step : {NaN, Fin(-1), Fin(0), Fin(1)},
     waveform : {"sine", "square", "randomwalk", "triangle"},
     max_points : {MinMaxPoints - 1, MinMaxPoints, DefaultMaxPoints}]

InitValidate ==
    /\ config = DefaultConfig
    /\ running = FALSE
    /\ points = <<>>
    /\ maxLength = DefaultMaxPoints
    /\ genConfig = DefaultConfig
    /\ xCurrent = 0
    /\ yLast = 0
    /\ timerActive = FALSE
    /\ plot = <<>>
    /\ pauseEnabled = TRUE
    /\ resumeEnabled = TRUE
    /\ status = "Ready"
    /\ fs = NoFile
    /\ closed = FALSE
    /\ op = "init"
    /\ arg \in {<<c>> : c \in ValidateInputs}
    /\ ret = NoRet
    /\ emitted = <<>>
    /\ warned = FALSE
    /\ lastSignal = "none"
    /\ walkBound = 0
    /\ added = <<>>

\* config.validate() on the configuration arg[1].
DoValidate ==
    /\ op = "init"
    /\ Commit([Cur EXCEPT !.ret = Returned(validate(arg[1]))], "validate", arg)

NextValidate == DoValidate

SpecValidate == InitValidate /\ [][NextValidate]_vars

-----------------------------------------------------------------------------
(* SpecBuffer: a DatasetModel of fixed capacity, add_point and clear *)

BufPoints == {<<Fin(0), Fin(1)>>, <<Fin(1), Fin(-1)>>, <<Fin(2), Fin(0)>>}

InitBuffer ==
    /\ config = DefaultConfig
    /\ running = FALSE
    /\ points = <<>>
    /\ maxLength \in 1..MaxCap
    /\ genConfig = DefaultConfig
    /\ xCurrent = 0
    /\ yLast = 0
    /\ timerActive = FALSE
    /\ plot = <<>>
    /\ pauseEnabled = TRUE
    /\ resumeEnabled = TRUE
    /\ status = "Ready"
    /\ fs = NoFile
    /\ closed = FALSE
    /\ op = "init"
    /\ arg = <<>>
    /\ ret = NoRet
    /\ emitted = <<>>
    /\ warned = FALSE
    /\ lastSignal = "none"
    /\ walkBound = 0
    /\ added = <<>>

BufAdd ==
    /\ Len(added) < MaxAdds
    /\ \E p \in BufPoints :
          Commit([add_point(Cur, p) EXCEPT !.added = Append(@, p)], "add_point", <<p>>)

BufClear == Commit([dataset_clear(Cur) EXCEPT !.added = <<>>], "clear", <<>>)

NextBuffer == BufAdd \/ BufClear

SpecBuffer == InitBuffer /\ [][NextBuffer]_vars

-----------------------------------------------------------------------------
(* SpecResize: a DatasetModel whose max_length is assigned between the calls,
   as AppState.apply_config and reset_config assign it *)

\* self.dataset.max_length = m
BufSetMaxLength ==
    \E m \in 1..MaxCap :
        m # maxLength /\ Commit([Cur EXCEPT !.maxLength = m], "set_max_length", <<m>>)

NextResize == BufAdd \/ BufClear \/ BufSetMaxLength

SpecResize == InitBuffer /\ [][NextResize]_vars

-----------------------------------------------------------------------------
(* SpecCsv: write_csv and read_csv on the file at Path *)

CsvPoints ==
    {<<Fin(0), Fin(1)>>, <<Fin(1), Fin(-30)>>, <<Fin(2), NaN>>, <<PosInf, NegInf>>}

\* The lists of at most MaxCsvLen points.
CsvLists == UNION {[1..n -> CsvPoints] : n \in 0..MaxCsvLen}

\* write_csv(Path, pts); the file system answers with fault.
CsvWrite ==
    \E pts \in CsvLists, fault \in {"none", "IOError", "ValueError"} :
        LET w == write_csv(fs, pts, fault)
        IN  Commit([Cur EXCEPT !.fs = w.file, !.ret = w.ret], "write_csv", <<pts, fault>>)

\* read_csv(Path).  arg records whether it reads what a successful write_csv
\* has just written, and the list that was written.
CsvRead ==
    Commit([Cur EXCEPT !.ret = read_csv(fs)], "read_csv",
           IF op = "write_csv" /\ ~ret.raised /\ ret.val[1]
           THEN <<"after_write", arg[1]>> ELSE <<"other", <<>>>>)

\* Another file is put at the path.
CsvExternal ==
    \E f \in SampleFiles : f # fs /\ Commit([Cur EXCEPT !.fs = f], "external_file", <<>>)

NextCsv == CsvWrite \/ CsvRead \/ CsvExternal

SpecCsv == Init /\ [][NextCsv]_vars

-----------------------------------------------------------------------------
(* SpecSave: files loaded into the dataset and the dataset saved, and
   write_csv called with a list of its own *)

\* The lists write_csv is given directly: none, one and two points.
SaveLists ==
    { <<>>,
      <<<<Fin(2), Fin(-30)>>>>,
      <<<<Fin(1), Fin(-30)>>, <<Fin(0), Fin(1)>>>> }

SaveExternal ==
    \E f \in SampleFiles : f # fs /\ Commit([Cur EXCEPT !.fs = f], "external_file", <<>>)

\* Load Data and Save Data clicked with Path in file_path_input.
SaveLoad == Commit(on_load_data(Cur, Path), "on_load_data", <<Path>>)
SaveSave ==
    \E fault \in {"none", "IOError", "ValueError"} :
        Commit(on_save_data(Cur, Path, fault), "on_save_data", <<Path, fault>>)

\* write_csv(Path, pts).
SaveWrite ==
    \E pts \in SaveLists, fault \in {"none", "IOError", "ValueError"} :
        LET w == write_csv(fs, pts, fault)
        IN  Commit([Cur EXCEPT !.fs = w.file, !.ret = w.ret], "write_csv", <<pts, fault>>)

NextSave == SaveExternal \/ SaveLoad \/ SaveSave \/ SaveWrite

SpecSave == Init /\ [][NextSave]_vars

-----------------------------------------------------------------------------
(* SpecSession: the window without its file operations, Apply offering the
   random walk as well *)

SessionConfigs == {DefaultConfig, SquareConfig, WalkConfig} \cup InvalidConfigs

SessionApplyConfig ==
    /\ ~closed
    /\ \E c \in SessionConfigs :
          Commit(on_apply_config(Cur, c), "on_apply_config", <<c>>)

NextSession ==
    \/ OnPause
    \/ OnResume
    \/ OnClear
    \/ SessionApplyConfig
    \/ OnResetConfig
    \/ CloseEvent
    \/ Tick

SpecSession == Init /\ [][NextSession]_vars

-----------------------------------------------------------------------------
(* SpecSample: the sampling methods of a generator called directly, as the
   unit tests call them, on generators constructed with any configuration of
   SampleConfigs and put at any cursor of SampleXs *)

SampleConfigs ==
    { DefaultConfig,
      [DefaultConfig EXCEPT !.noise = Fin(0)],
      SquareConfig,
      [SquareConfig EXCEPT !.frequency = Fin(20), !.noise = Fin(1)],
      [SquareConfig EXCEPT !.frequency = Fin(0), !.amplitude = Fin(40)],
      WalkConfig,
      [DefaultConfig EXCEPT !.waveform = "triangle"] }

\* Cursors: 0.0, 0.05, 0.1, 0.25, 0.5, 0.75, 1.0, 1.25.
SampleXs == {0, 1, 2, 5, 10, 15, 20, 25}

\* stream = DataStream(c); stream.x_current = x
SampleConstruct ==
    \E c \in SampleConfigs, x \in SampleXs :
        Commit([reset(set_config(Cur, c)) EXCEPT !.xCurrent = x], "construct", <<c, x>>)

\* stream.set_config(c) on the generator as it is.
SampleSetConfig ==
    \E c \in SampleConfigs : Commit(set_config(Cur, c), "set_config", <<c>>)

\* _generate_y() on the generator, and on a second generator just constructed
\* with the same configuration and put at the same cursor, each with its own
\* draws: ret.val = <<y of the first, y of the second>>.
SampleGenerate ==
    \E step \in UniformDraws(genConfig), noise \in GaussDraws(genConfig),
       step2 \in UniformDraws(genConfig), noise2 \in GaussDraws(genConfig) :
        LET g == generate_y(Cur, step, noise)
            other == [reset(Cur) EXCEPT !.xCurrent = xCurrent]
            g2 == generate_y(other, step2, noise2)
        IN  /\ g[2].walkBound <= MaxWalk * Abs(Val(genConfig.amplitude))
            /\ Commit([g[2] EXCEPT !.ret = Returned(<<g[1], g2[1]>>)],
                      "generate_y", <<step, noise, step2, noise2>>)

\* _square_wave(x): ret.val = <<the value returned>>.
SampleSquare ==
    \E x \in SampleXs :
        Commit([Cur EXCEPT !.ret = Returned(<<square_wave(genConfig, x)>>)],
               "square_wave", <<x>>)

\* _random_walk() on the generator, and on a copy of it put at the cursor x2
\* that makes the same draw: ret.val = <<value returned, value of the copy>>.
SampleWalk ==
    \E step \in UniformDraws(genConfig), x2 \in SampleXs :
        LET w == random_walk(Cur, step)
            w2 == random_walk([Cur EXCEPT !.xCurrent = x2], step)
        IN  /\ w.walkBound <= MaxWalk * Abs(Val(genConfig.amplitude))
            /\ Commit([w EXCEPT !.ret = Returned(<<w.yLast, w2.yLast>>)],
                      "random_walk", <<step, x2>>)

NextSample ==
    \/ SampleConstruct
    \/ SampleSetConfig
    \/ SampleGenerate
    \/ SampleSquare
    \/ SampleWalk

SpecSample == Init /\ [][NextSample]_vars

-----------------------------------------------------------------------------
(* The properties *)

\* What the application holds besides the record of the last operation.
appVars ==
    <<config, running, points, maxLength, genConfig, xCurrent, yLast,
      timerActive, plot, pauseEnabled, resumeEnabled, status, fs, closed>>

\* C1: at every moment the dataset holds at most max_length points.
\* Violated under Spec: apply_config and reset_config assign max_length and
\* leave the points alone, so lowering max_points below the number of points
\* held leaves the dataset over its capacity.
C1_LenAtMostMaxLength == Len(points) <= maxLength

\* C2: from an empty buffer of fixed capacity N, after k add_point calls the
\* buffer holds the last min(k, N) points added, in the order they were
\* added; point_count() is min(k, N) and last_point() is the point added
\* last.  (SpecBuffer; added is the list of the points added since the
\* buffer was last empty.)
C2_BufferHoldsLastPoints ==
    /\ points = LastN(added, Min(Len(added), maxLength))
    /\ point_count(Cur) = Min(Len(added), maxLength)
    /\ (added # <<>> => last_point(Cur) = added[Len(added)])

\* C2 witness: add_point has evicted: more points were added than fit.
C2_Witness ==
    /\ op = "add_point"
    /\ Len(added) > maxLength + 1
    /\ Len(points) = maxLength
    /\ maxLength > 1

\* C3: when on_apply_config is given a configuration that fails validate(),
\* apply_config returns False, the stored configuration, dataset.max_length
\* and the points are what they were, and set_config is not called: the
\* generator keeps its configuration.  (Spec)
C3_InvalidConfigRejectedWhole ==
    [][(op' = "on_apply_config" /\ ~validate(arg'[1])[1])
         => /\ ret'.val = <<FALSE>>
            /\ config' = config
            /\ maxLength' = maxLength
            /\ points' = points
            /\ genConfig' = genConfig]_vars

\* C3 witness: an invalid configuration has been refused while the stored
\* configuration was another one than the default and points were held.
C3_Witness ==
    /\ op = "on_apply_config"
    /\ ~validate(arg[1])[1]
    /\ ret.val = <<FALSE>>
    /\ config = SquareConfig
    /\ points # <<>>

\* The six checks of the specification, each as the comparison it names.
AllChecksHold(c) ==
    /\ PyGtZero(c.amplitude)
    /\ PyGeZero(c.frequency)
    /\ PyGeZero(c.noise)
    /\ PyGtZero(c.x_step)
    /\ c.waveform \in VALID_WAVEFORMS
    /\ c.max_points >= MinMaxPoints

\* C4: validate() returns (True, "") exactly when amplitude > 0,
\* frequency >= 0, noise >= 0, x_step > 0, the waveform is one of the three
\* and max_points is at least the minimum.  Violated under SpecValidate: the
\* code tests amplitude <= 0, frequency < 0, noise < 0 and x_step <= 0, which
\* are all false of NaN, so a configuration with a NaN field is accepted.
C4_ValidExactlyWhenChecksHold ==
    op = "validate" => (ret.val = <<TRUE, "">> <=> AllChecksHold(arg[1]))

\* C5: a tick emits exactly one point, whose x is the cursor before the tick,
\* and then advances the cursor by the x_step of the generator's
\* configuration; Clear and a successful Load reset the cursor to 0, and the
\* cursor decreases in no other step.  (Spec)
C5_TickEmitsCursorThenAdvances ==
    [][/\ op' = "on_timer"
            => /\ Len(emitted') = 1
               /\ emitted'[1][1] = "new_point"
               /\ emitted'[1][2] = xCurrent
               /\ xCurrent' = xCurrent + Val(genConfig.x_step)
       /\ op' = "on_clear" => xCurrent' = 0
       /\ xCurrent' < xCurrent
            => op' \in {"on_clear", "on_load_data"} /\ xCurrent' = 0]_vars

\* C5 witness: the second tick after a reset, made with another x_step than
\* the first, has emitted the first tick's x_step and advanced by its own.
C5_Witness ==
    /\ op = "on_timer"
    /\ genConfig = SquareConfig
    /\ emitted = <<<<"new_point", 1, emitted[1][3]>>>>
    /\ xCurrent = 3
    /\ Len(points) = 2

\* C6: start() on a running generator and stop() on a stopped one change
\* nothing and emit nothing; started is emitted only when the generator goes
\* from stopped to running and stopped only when it goes from running to
\* stopped, so the two signals alternate, the first being started.
\* (SpecStream)
C6_StartStopIdempotentAlternate ==
    [][/\ (op' = "start" /\ timerActive)
            => emitted' = <<>> /\ UNCHANGED appVars
       /\ (op' = "stop" /\ ~timerActive)
            => emitted' = <<>> /\ UNCHANGED appVars
       /\ \A i \in 1..Len(emitted') :
            /\ emitted'[i][1] = "started" => ~timerActive /\ timerActive'
            /\ emitted'[i][1] = "stopped" => timerActive /\ ~timerActive'
       /\ \A i \in 1..Len(StartStops(emitted')) :
            StartStops(emitted')[i] =
                IF (IF i = 1 THEN lastSignal ELSE StartStops(emitted')[i - 1])
                      = "started"
                THEN "stopped" ELSE "started"]_vars

\* C6 witness: start() was called on a generator that had been started,
\* stopped and started again, and emitted nothing.
C6_Witness ==
    /\ op = "start"
    /\ emitted = <<>>
    /\ timerActive
    /\ lastSignal = "started"
    /\ plot # <<>>

\* C7: a failure during a tick is caught, and the stream is stopped: the
\* timer is inactive after it.  Violated under SpecFault: _on_timer has no
\* try block and nothing calls stop(), so the timer stays active.
C7_FaultStopsStream == op = "on_timer_fault" => ~timerActive

\* No coordinate of any point of the list is NaN.
NoNaN(pts) == \A i \in 1..Len(pts) : ~IsNaN(pts[i][1]) /\ ~IsNaN(pts[i][2])

FirstBadRow(rows) ==
    LET bad == {i \in 2..Len(rows) :
                  \/ Len(rows[i]) # 2
                  \/ \E j \in 1..2 : ~ParseFloat(rows[i][j])[1]}
    IN  IF bad = {} THEN 0 ELSE CHOOSE i \in bad : \A k \in bad : i <= k

\* C9: read_csv returns the empty list and a message, and never the rows read
\* so far, when the file is missing (the message holds "not found"), has no
\* header row ("empty"), has another header than x,y ("header"), or has a
\* data row without exactly two fields or with a field that is no float
\* ("invalid", when that is what is wrong with the first bad row), also when
\* the bad row follows valid rows.  (SpecCsv)
C9_BadFileGivesEmptyListAndMessage ==
    op = "read_csv" =>
        /\ fs.kind = "missing"
             => ret.val[1] = <<>> /\ Contains(ret.val[2], "not found")
        /\ (fs.kind = "file" /\ fs.rows = <<>>)
             => ret.val[1] = <<>> /\ Contains(ret.val[2], "empty")
        /\ (fs.kind = "file" /\ fs.rows # <<>> /\ fs.rows[1] # Header)
             => ret.val[1] = <<>> /\ Contains(ret.val[2], "header")
        /\ (fs.kind = "file" /\ fs.rows # <<>> /\ fs.rows[1] = Header
              /\ FirstBadRow(fs.rows) # 0)
             => /\ ret.val[1] = <<>>
                /\ ret.val[2] # ""
                /\ ~Contains(ret.val[2], "Loaded")
                /\ Len(fs.rows[FirstBadRow(fs.rows)]) = 2
                     => Contains(ret.val[2], "invalid")

\* C9 witness: a file whose third row is not numeric, after a valid row, has
\* been read.
C9_Witness ==
    /\ op = "read_csv"
    /\ fs = File(<<Header, <<"1", "2">>, <<"abc", "def">>>>)
    /\ ret.val[1] = <<>>
    /\ Contains(ret.val[2], "invalid")

\* C10: write_csv and read_csv raise nothing: when the file system fails
\* them, write_csv returns (False, message) and read_csv returns
\* ([], message).  (SpecCsv)
C10_CsvNeverRaises ==
    /\ op = "write_csv"
         => /\ ~ret.raised
            /\ arg[2] # "none" => ret.val[1] = FALSE /\ ret.val[2] # ""
    /\ op = "read_csv"
         => /\ ~ret.raised
            /\ fs.kind \in {"unreadable", "undecodable"}
                 => ret.val[1] = <<>> /\ ret.val[2] # ""

\* C10 witness: a write failed with an exception that is no IOError and a
\* value was returned.
C10_Witness ==
    /\ op = "write_csv"
    /\ arg[2] = "ValueError"
    /\ ~ret.raised
    /\ ret.val[1] = FALSE

\* C11: with noise = 0 and waveform sine or square, _generate_y on two
\* generators of equal configuration and equal x_current returns the same
\* value, whatever their earlier samples, their y_last and their draws.
\* (SpecSample)
C11_ZeroNoiseDeterministic ==
    (op = "generate_y" /\ Val(genConfig.noise) = 0
       /\ genConfig.waveform \in {"sine", "square"})
        => ret.val[1] = ret.val[2]

\* C11 witness: a sine generator without noise that has walked before, so
\* that its y_last is not the 0.0 of the second generator, was sampled at a
\* cursor where the sine is not 0.
C11_Witness ==
    /\ op = "generate_y"
    /\ genConfig = [DefaultConfig EXCEPT !.noise = Fin(0)]
    /\ yLast # 0
    /\ ret.val[1] # 0
    /\ ret.val[1] = ret.val[2]

\* C12: Clear, from any state, leaves the dataset empty, the cursor at
\* (x_current, y_last) = (0, 0), the timer stopped and running False; a
\* Resume that follows it keeps dataset and cursor so, and the first tick
\* after that Resume emits x = 0 into the empty dataset.  (SpecSession)
C12_ClearResetsDatasetAndCursor ==
    [][/\ op' = "on_clear"
            => /\ points' = <<>>
               /\ xCurrent' = 0 /\ yLast' = 0
               /\ ~timerActive' /\ ~running'
       /\ (op = "on_clear" /\ op' = "on_resume")
            => /\ points' = <<>>
               /\ xCurrent' = 0 /\ yLast' = 0
               /\ timerActive'
       /\ (op = "on_resume" /\ points = <<>> /\ xCurrent = 0 /\ op' = "on_timer")
            => /\ emitted'[1][2] = 0
               /\ Len(points') = 1
               /\ points'[1][1] = Fin(0)]_vars

\* C12 witness: Clear was clicked while a random walk was running (the
\* generator emitted stopped during it).
C12_Witness ==
    /\ op = "on_clear"
    /\ genConfig = WalkConfig
    /\ emitted = <<<<"stopped">>>>
    /\ points = <<>>
    /\ yLast = 0

\* C13: a tick under a configuration whose waveform is none of sine, square,
\* randomwalk takes 0.0 as base value (the y emitted is the noise alone),
\* logs the warning, emits its one point at the cursor and advances the
\* cursor by x_step; y_last is left alone, and the point reaches the dataset.
\* A tick under a known waveform logs no warning.  (SpecStream)
C13_UnknownWaveformTick ==
    [][/\ (op' = "on_timer" /\ genConfig.waveform \notin VALID_WAVEFORMS)
            => /\ warned'
               /\ Len(emitted') = 1
               /\ emitted'[1][1] = "new_point"
               /\ emitted'[1][2] = xCurrent
               /\ emitted'[1][3] \in GaussDraws(genConfig)
               /\ xCurrent' = xCurrent + Val(genConfig.x_step)
               /\ yLast' = yLast
               /\ points'[Len(points')] = <<Fin(xCurrent), Fin(emitted'[1][3])>>
       /\ (op' = "on_timer" /\ genConfig.waveform \in VALID_WAVEFORMS)
            => ~warned']_vars

\* C13 witness: the second tick under the waveform "triangle", at a cursor
\* where the sine is not 0.
C13_Witness ==
    /\ op = "on_timer"
    /\ genConfig.waveform = "triangle"
    /\ warned
    /\ emitted[1][2] = 1
    /\ xCurrent = 2

\* x is in the first half of a period: k periods <= x < k periods + half a
\* period for some whole k, the period being 1/frequency, or 1.0 when the
\* frequency is 0.  In twentieths, x / period is x f / 400, or x / 20.
InFirstHalfPeriod(c, x) ==
    LET turns == IF Val(c.frequency) > 0 THEN x * Val(c.frequency) ELSE 20 * x
    IN  \E k \in 0..(turns \div 400) :
            400 * k <= turns /\ 2 * turns < 800 * k + 400

\* C14: _square_wave(x) returns +amplitude when x is in the first half of a
\* period (phase < 0.5) and -amplitude otherwise, with period 1/frequency
\* for frequency > 0 and 1.0 for frequency = 0; it raises nothing and its
\* value is always one of the two.  (SpecSample)
C14_SquareWaveValue ==
    op = "square_wave" =>
        /\ ~ret.raised
        /\ ret.val[1] \in {Val(genConfig.amplitude), -Val(genConfig.amplitude)}
        /\ ret.val[1] = IF InFirstHalfPeriod(genConfig, arg[1])
                        THEN Val(genConfig.amplitude)
                        ELSE -Val(genConfig.amplitude)

\* C14 witness: with frequency 0 and amplitude 2.0, the sample at x = 0.75 is
\* -2.0.
C14_Witness ==
    /\ op = "square_wave"
    /\ Val(genConfig.frequency) = 0
    /\ arg[1] = 15
    /\ ret.val[1] = -40

\* C15: a _random_walk step draws s with -amplitude <= s <= amplitude, sets
\* y_last to y_last + s and returns the new y_last, so two consecutive values
\* differ by at most amplitude; it returns the same whatever x_current is and
\* leaves x_current alone; and |y_last| is at most the sum of the amplitudes
\* of the steps made since y_last was 0, which is n * amplitude after n steps
\* under one amplitude.  (SpecSample)
C15_RandomWalkStep ==
    [][/\ op' = "random_walk"
            => /\ -Abs(Val(genConfig.amplitude)) <= arg'[1]
               /\ arg'[1] <= Abs(Val(genConfig.amplitude))
               /\ yLast' = yLast + arg'[1]
               /\ ret'.val[1] = yLast'
               /\ Abs(yLast' - yLast) <= Abs(Val(genConfig.amplitude))
               /\ ret'.val[2] = ret'.val[1]
               /\ xCurrent' = xCurrent
               /\ walkBound' = walkBound + Abs(Val(genConfig.amplitude))
       /\ Abs(yLast') <= walkBound']_vars

\* C15 witness: two steps of a walk of amplitude 1.0 from y_last = 0, at a
\* cursor that is not 0, have reached the bound 2 * amplitude.
C15_Witness ==
    /\ op = "random_walk"
    /\ genConfig = WalkConfig
    /\ xCurrent # 0
    /\ walkBound = 2 * Val(genConfig.amplitude)
    /\ Abs(yLast) = walkBound

\* The file holds the header row and then one row per point of pts, in the
\* order of pts, each coordinate as str() prints it.
HoldsHeaderAndRows(file, pts) ==
    /\ file.kind = "file"
    /\ Len(file.rows) = 1 + Len(pts)
    /\ file.rows[1] = <<"x", "y">>
    /\ \A i \in 1..Len(pts) :
          file.rows[i + 1] = <<ReprFloat(pts[i][1]), ReprFloat(pts[i][2])>>

\* C16: a write_csv that succeeds leaves the header row x,y and then one row
\* per point of the list it was given, in the order of the list, the header
\* alone for the empty list; and Save Data writes so the points of the
\* dataset, the oldest retained point first.  (SpecSave)
C16_WriteHeaderThenRowsInOrder ==
    /\ (op = "write_csv" /\ arg[2] = "none")
         => ret.val[1] /\ HoldsHeaderAndRows(fs, arg[1])
    /\ (op = "on_save_data" /\ arg[2] = "none")
         => ret.val[1] /\ HoldsHeaderAndRows(fs, points)

\* C16 witness: Save Data has written a dataset that is full, after a file of
\* more rows than it holds was loaded: the first row is the oldest point
\* the dataset retained, the second row of the file loaded.
C16_Witness ==
    /\ op = "on_save_data"
    /\ arg[2] = "none"
    /\ Len(points) = maxLength
    /\ points[1] = <<Fin(20), Fin(40)>>
    /\ fs.rows[2] = <<"1.0", "2.0">>
    /\ Len(fs.rows) = 1 + maxLength

\* C17: read_csv returns no point with a coordinate that is NaN or infinite:
\* a row holding a NaN or Infinity token makes the read fail.  Violated
\* under SpecCsv: float() parses "nan", "inf" and "Infinity", and the check
\* that follows it, isinstance(x, float), holds of every float, so the row
\* is appended like any other.
C17_ReadReturnsFinitePoints ==
    op = "read_csv" =>
        \A i \in 1..Len(ret.val[1]) :
            ret.val[1][i][1][1] = "fin" /\ ret.val[1][i][2][1] = "fin"

\* C18: Apply and Reset Defaults leave dataset.points as it is, also when the
\* new max_points is below the number of points held: a successful
\* apply_config only stores the configuration and sets dataset.max_length,
\* and so does reset_config with the defaults.  (Spec)
C18_ConfigChangeKeepsPoints ==
    [][/\ op' \in {"on_apply_config", "on_reset_config"} => points' = points
       /\ (op' = "on_apply_config" /\ validate(arg'[1])[1])
            => config' = arg'[1] /\ maxLength' = arg'[1].max_points
       /\ op' = "on_reset_config"
            => config' = DefaultConfig /\ maxLength' = DefaultConfig.max_points]_vars

\* C18 witness: a configuration was applied whose max_points is below the
\* number of points held, and the points are all still there.
C18_Witness ==
    /\ op = "on_apply_config"
    /\ ret.val = <<TRUE>>
    /\ maxLength = MinMaxPoints
    /\ Len(points) > maxLength

\* C19: after stop() no point is generated until start() is called: Pause,
\* Clear, a successful Load and closing the window leave the timer inactive;
\* only Resume makes it active again; new_point is emitted only by a tick of
\* the active timer; and while the timer is inactive the dataset changes
\* only by Clear or Load.  (Spec)
C19_NoPointAfterStop ==
    [][/\ op' \in {"on_pause", "on_clear", "closeEvent"} => ~timerActive'
       /\ (op' = "on_load_data" /\ arg'[1] # "" /\ ret'.val[1] # <<>>)
            => ~timerActive'
       /\ (~timerActive /\ timerActive') => op' = "on_resume"
       /\ (\E i \in 1..Len(emitted') : emitted'[i][1] = "new_point")
            => timerActive /\ op' = "on_timer"
       /\ (~timerActive /\ points' # points)
            => op' \in {"on_clear", "on_load_data"}]_vars

\* C19 witness: Pause was clicked while the stream was running and had
\* produced points.
C19_Witness ==
    /\ op = "on_pause"
    /\ emitted = <<<<"stopped">>>>
    /\ ~timerActive
    /\ Len(points) = 2
    /\ xCurrent = 2

\* C20: Pause and Resume leave dataset.points, x_current, y_last and the
\* configuration (the stored one and the generator's) unchanged, and the
\* first tick after a Resume emits the x_current the Resume found, which is
\* the one the stream was paused at.  (SpecSession)
C20_PauseResumeKeepDataAndCursor ==
    [][/\ op' \in {"on_pause", "on_resume"}
            => UNCHANGED <<points, xCurrent, yLast, config, genConfig, maxLength>>
       /\ (op = "on_resume" /\ op' = "on_timer")
            => emitted'[1][1] = "new_point" /\ emitted'[1][2] = xCurrent]_vars

\* C20 witness: a random walk that had run and was paused away from the
\* start has been resumed.
C20_Witness ==
    /\ op = "on_resume"
    /\ emitted = <<<<"started">>>>
    /\ genConfig = WalkConfig
    /\ xCurrent > 0
    /\ yLast # 0
    /\ points # <<>>

-----------------------------------------------------------------------------
(* SpecLoad: the window with Load Data, Clear, Pause, Resume, Apply (the random
   walk included) and the timer; nothing is saved *)

NextLoad ==
    \/ OnPause
    \/ OnResume
    \/ OnClear
    \/ OnLoadData
    \/ SessionApplyConfig
    \/ Tick
    \/ ExternalFile

SpecLoad == Init /\ [][NextLoad]_vars

-----------------------------------------------------------------------------
(* The window's construction and its controls *)

\* C21: when MainWindow.__init__ returns the data stream is running: the
\* timer is active and app_state.running is True.  (Spec; the state after
\* construction is the one with op = "init")
C21_RunningAfterInit == op = "init" => (timerActive /\ running)

\* C22: in every reachable state, the initial one included, Pause is enabled
\* exactly when the stream is running and Resume exactly when it is not.
\* (Spec)
C22_ButtonsFollowRunning ==
    /\ pauseEnabled = timerActive
    /\ resumeEnabled = ~timerActive

-----------------------------------------------------------------------------
(* Load Data *)

\* The points a well-formed file holds, in the order of its rows.
FilePoints(file) ==
    [i \in 1..(Len(file.rows) - 1) |->
        <<ParseFloat(file.rows[i + 1][1])[2], ParseFloat(file.rows[i + 1][2])[2]>>]

\* C23: after a Load that read n >= 1 points the stream is stopped, the cursor
\* is back at (0, 0), the dataset holds exactly the last min(n, max_length)
\* points of the file in file order and none it held before, and the plot
\* shows the same points.  (SpecLoad)
C23_LoadReplacesDataset ==
    [][(op' = "on_load_data" /\ arg'[1] # "" /\ ret'.val[1] # <<>>)
          => LET n == Len(FilePoints(fs))
             IN  /\ n >= 1
                 /\ ret'.val[1] = FilePoints(fs)
                 /\ ~timerActive'
                 /\ ~running'
                 /\ xCurrent' = 0
                 /\ yLast' = 0
                 /\ points' = LastN(FilePoints(fs), Min(n, maxLength))
                 /\ plot' = points']_vars

\* C23 witness: a file of three points was loaded over a running stream into
\* a dataset of capacity two.
C23_Witness ==
    /\ op = "on_load_data"
    /\ emitted = <<<<"stopped">>>>
    /\ maxLength = 2
    /\ fs = File(<<Header, <<"0.5", "1">>, <<"1.0", "2">>, <<"1.5", "-1">>>>)
    /\ points = <<<<Fin(20), Fin(40)>>, <<Fin(30), Fin(-20)>>>>
    /\ plot = points
    /\ xCurrent = 0

\* C30: Load changes the state only if read_csv returns at least one point.
\* With an empty path, a file that cannot be read or has a malformed row, or
\* a well-formed file of the header row alone, the dataset, the cursor, the
\* plot, the running state and the configuration are as they were and no
\* signal is emitted; whenever read_csv was called the status reports a
\* failed load with read_csv's message.  (SpecLoad)
C30_FailedLoadChangesNothing ==
    [][/\ (op' = "on_load_data" /\ arg'[1] # "" /\ (fs.kind # "file" \/ Len(fs.rows) = 1))
            => ret'.val[1] = <<>>
       /\ (op' = "on_load_data" /\ arg'[1] # "" /\ ret'.val[1] = <<>>)
            => status' = "Load failed: " \o ret'.val[2]
       /\ (op' = "on_load_data" /\ (arg'[1] = "" \/ ret'.val[1] = <<>>))
            => /\ UNCHANGED <<points, xCurrent, yLast, plot, running, timerActive>>
               /\ UNCHANGED <<config, genConfig, maxLength, pauseEnabled, resumeEnabled>>
               /\ emitted' = <<>>]_vars

\* C30 witness: the header-only file was loaded while a random walk was
\* running away from the start; the stream still runs and the points are
\* still there.
C30_Witness ==
    /\ op = "on_load_data"
    /\ arg = <<Path>>
    /\ fs = File(<<Header>>)
    /\ ret.val[1] = <<>>
    /\ status = "Load failed: " \o ret.val[2]
    /\ timerActive
    /\ running
    /\ yLast # 0
    /\ points # <<>>
    /\ plot # <<>>

-----------------------------------------------------------------------------
(* Apply while the stream runs, and the copies of the configuration *)

\* The y values a tick may emit from the state s when the generator's whole
\* configuration is c.
TickValues(s, c) ==
    { generate_y([s EXCEPT !.genConfig = c], step, noise)[1] :
        step \in UniformDraws(c), noise \in GaussDraws(c) }

\* C24: applying a valid configuration while the stream runs neither stops
\* nor restarts it: the timer stays active, started and stopped are not
\* emitted, x_current, y_last and the points are unchanged, and the very
\* next tick is computed entirely with the new configuration.  (SpecSession)
C24_ApplyWhileRunning ==
    [][/\ (op' = "on_apply_config" /\ validate(arg'[1])[1] /\ timerActive)
            => /\ timerActive'
               /\ running' = running
               /\ emitted' = <<>>
               /\ UNCHANGED <<xCurrent, yLast, points, plot>>
               /\ genConfig' = arg'[1]
       /\ (op = "on_apply_config" /\ validate(arg[1])[1] /\ op' = "on_timer")
            => /\ emitted'[1][1] = "new_point"
               /\ emitted'[1][2] = xCurrent
               /\ emitted'[1][3] \in TickValues(Cur, arg[1])
               /\ xCurrent' = xCurrent + Val(arg[1].x_step)]_vars

\* C24 witness: the random walk was applied to a running sine stream that had
\* produced points.
C24_Witness ==
    /\ op = "on_apply_config"
    /\ arg = <<WalkConfig>>
    /\ status = "Configuration applied"
    /\ timerActive
    /\ genConfig = WalkConfig
    /\ xCurrent > 0
    /\ points # <<>>

\* C25: after every completed handler of the window, app_state.running is
\* True exactly when the timer of the data stream is active.  (Spec)
C25_RunningIffTimerActive == running = timerActive

\* C25 witness: the window was closed while the stream was running, and the
\* stopped signal took app_state out of the running state.
C25_Witness ==
    /\ op = "closeEvent"
    /\ emitted = <<<<"stopped">>>>
    /\ ~running
    /\ ~timerActive
    /\ points # <<>>

\* C26: after every action of the window the three copies of the
\* configuration agree: the generator's configuration equals
\* app_state.config, and dataset.max_length equals app_state.config.max_points.
\* (Spec)
C26_ConfigCopiesAgree ==
    /\ genConfig = config
    /\ maxLength = config.max_points

\* C26 witness: Reset Defaults was clicked after one tick of the square wave
\* (x_step 2, capacity MinMaxPoints), and all three copies hold the defaults.
C26_Witness ==
    /\ op = "on_reset_config"
    /\ config = DefaultConfig
    /\ genConfig = DefaultConfig
    /\ maxLength = DefaultMaxPoints
    /\ xCurrent = 2
    /\ Len(points) = 1

\* C27: in every state reachable through the window the configuration the
\* generator uses passes validate(): its waveform is a known one and its
\* x_step is positive, so no tick takes the unknown-waveform branch (the
\* warning is never logged), although set_config validates nothing.  (Spec)
C27_GeneratorConfigValid ==
    /\ validate(genConfig)[1]
    /\ genConfig.waveform \in VALID_WAVEFORMS
    /\ PyGtZero(genConfig.x_step)
    /\ ~warned

\* C27 witness: a configuration validate() rejects was submitted to a running
\* stream that uses the square wave applied before, and the generator still
\* has the square wave.
C27_Witness ==
    /\ op = "on_apply_config"
    /\ ~validate(arg[1])[1]
    /\ arg[1].waveform = "triangle"
    /\ genConfig = SquareConfig
    /\ timerActive

-----------------------------------------------------------------------------
(* The plot and the buffer *)

\* The sequence a is a suffix of the sequence b.
IsSuffix(a, b) == Len(a) <= Len(b) /\ LastN(b, Len(a)) = a

\* C28: the plot never evicts.  The points of the dataset are always a suffix
\* of the plotted points; the two are equal right after a Clear and after a
\* successful Load, and stay equal over every tick that does not evict; a
\* tick on a buffer at (or over) capacity lengthens the plot by one and leaves
\* the size of the dataset as it was.  (SpecLoad)
C28_PlotKeepsEveryPoint ==
    /\ [](IsSuffix(points, plot))
    /\ [][/\ op' = "on_clear" => (points' = <<>> /\ plot' = <<>>)
          /\ (op' = "on_load_data" /\ arg'[1] # "" /\ ret'.val[1] # <<>>)
                => plot' = points'
          /\ (op' = "on_timer" /\ Len(points) < maxLength /\ plot = points)
                => plot' = points'
          /\ (op' = "on_timer" /\ Len(points) >= maxLength)
                => /\ Len(plot') = Len(plot) + 1
                   /\ Len(points') = Len(points)
                   /\ plot'[Len(plot')] = points'[Len(points')]]_vars

\* C28 witness: a tick on a full buffer has evicted the oldest point of the
\* dataset, and the plot still shows it.
C28_Witness ==
    /\ op = "on_timer"
    /\ Len(points) = maxLength
    /\ Len(plot) = Len(points) + 1
    /\ plot[1] # points[1]
    /\ IsSuffix(points, plot)

\* C29: add_point removes at most one element per call: it leaves the
\* appended buffer or the appended buffer without its oldest element.  On a
\* buffer that holds more than max_length points (max_length was lowered)
\* every add_point leaves the count as it was, and the buffer stays oversized
\* while max_length is kept, until clear() is called.  (SpecResize)
C29_AddPointEvictsAtMostOne ==
    [][/\ op' = "add_point"
            => /\ points' \in {Append(points, arg'[1]), Tail(Append(points, arg'[1]))}
               /\ Len(points') >= Len(points)
       /\ (op' = "add_point" /\ Len(points) > maxLength)
            => Len(points') = Len(points)
       /\ (Len(points) > maxLength /\ maxLength' = maxLength /\ op' # "clear")
            => Len(points') = Len(points)]_vars

\* C29 witness: max_length was lowered to one while the buffer held three
\* points, and a later add_point has left three points in it.
C29_Witness ==
    /\ op = "add_point"
    /\ maxLength = 1
    /\ Len(points) = 3
    /\ Len(added) = 4
    /\ points[3] = arg[1]

====
